---- MODULE Spec2Model ----
(***************************************************************************)
(* Model of the Streamable-HTTP MCP gateway of                             *)
(* src/cloudflare/worker-gateway/src/index.ts: the JSON-RPC dispatcher     *)
(* (handleMcp / handleOneRpc), the per-key context store (ChatStore), the  *)
(* backend proxy (RlmContainer) and the transport codec                    *)
(* (streamableResponse).                                                   *)
(*                                                                         *)
(* Strings are sequences of one-character strings, so that concatenation,  *)
(* trimming, emptiness and slicing are computed as the code computes them. *)
(* An optional value (a JSON field that may be missing) is <<>> when       *)
(* absent and <<v>> when present.                                          *)
(***************************************************************************)
EXTENDS Integers, Sequences, FiniteSets, TLC

(* ------------------------------ bounds --------------------------------- *)

\* longest batch array a caller sends
MaxBatch == 2

(* ------------------------- program constants --------------------------- *)

\* for (let attempt = 0; attempt < 20; attempt++)
MaxAttempts == 20

\* detail.slice(0, 400)
DetailLimit == 400

(* ------------------------------ strings -------------------------------- *)

Absent == <<>>

Some(v) == <<v>>

IsSome(o) == Len(o) = 1

Get(o) == o[1]

Null == "null"

Whitespace == {" ", "\n", "\t"}

RECURSIVE TrimStart(_)
TrimStart(s) ==
  IF Len(s) > 0 /\ s[1] \in Whitespace THEN TrimStart(Tail(s)) ELSE s

RECURSIVE TrimEnd(_)
TrimEnd(s) ==
  IF Len(s) > 0 /\ s[Len(s)] \in Whitespace
  THEN TrimEnd(SubSeq(s, 1, Len(s) - 1))
  ELSE s

\* String.prototype.trim
Trim(s) == TrimEnd(TrimStart(s))

\* arguments?.field?.trim(): undefined stays undefined
OptTrim(o) == IF IsSome(o) THEN Some(Trim(Get(o))) ELSE Absent

\* a test that only looks for undefined
FalsyUndefinedOnly(o) == ~IsSome(o)

\* !value for a value that is a string or undefined
Falsy(o) == ~IsSome(o) \/ Get(o) = <<>>

Min(a, b) == IF a < b THEN a ELSE b

\* a slice that keeps the whole string
SliceAll(s, n) == s

\* String.prototype.slice(0, n)
Slice(s, n) == SubSeq(s, 1, Min(Len(s), n))

IsPrefix(p, s) == Len(p) <= Len(s) /\ SubSeq(s, 1, Len(p)) = p

Contains(s, t) ==
  \E i \in 0..(Len(s) - Len(t)) : SubSeq(s, i + 1, i + Len(t)) = t

RECURSIVE Flatten(_)
Flatten(ss) == IF ss = <<>> THEN <<>> ELSE Head(ss) \o Flatten(Tail(ss))

(* -------------------------- transport codec ---------------------------- *)

\* the upper-case letters and their lower-case forms
LowerCase ==
  [A |-> "a", B |-> "b", C |-> "c", D |-> "d", E |-> "e", F |-> "f",
   G |-> "g", H |-> "h", I |-> "i", J |-> "j", K |-> "k", L |-> "l",
   M |-> "m", N |-> "n", O |-> "o", P |-> "p", Q |-> "q", R |-> "r",
   S |-> "s", T |-> "t", U |-> "u", V |-> "v", W |-> "w", X |-> "x",
   Y |-> "y", Z |-> "z"]

\* String.prototype.toLowerCase
Lower(s) ==
  [i \in 1..Len(s) |-> IF s[i] \in DOMAIN LowerCase THEN LowerCase[s[i]] ELSE s[i]]

EventStream ==
  <<"t", "e", "x", "t", "/", "e", "v", "e", "n", "t", "-", "s", "t", "r",
    "e", "a", "m">>

\* a test that compares the header as it was sent
wantsSseCaseSensitive(accept) ==
  Contains(IF IsSome(accept) THEN Get(accept) ELSE <<>>, EventStream)

\* wantsSse: (request.headers.get("accept") ?? "").toLowerCase()
\*   .includes("text/event-stream"); a missing header is Absent
wantsSse(accept) ==
  Contains(Lower(IF IsSome(accept) THEN Get(accept) ELSE <<>>), EventStream)

\* Response.json(payload, {status})
JsonResponse(payload, status) ==
  [status |-> status, fmt |-> "json", event |-> "", data |-> Some(payload)]

\* new Response(`event: message\ndata: ${JSON.stringify(payload)}\n\n`)
SseResponse(payload, status) ==
  [status |-> status, fmt |-> "sse", event |-> "message", data |-> Some(payload)]

\* new Response(null, {status}) and new Response("text", {status})
BareResponse(status) ==
  [status |-> status, fmt |-> "none", event |-> "", data |-> Absent]

streamableResponse(accept, payload, status) ==
  IF ~wantsSse(accept)
  THEN JsonResponse(payload, status)
  ELSE SseResponse(payload, status)

jsonRpcResult(accept, id, result) ==
  streamableResponse(accept,
    [jsonrpc |-> "2.0", id |-> id, result |-> Some(result), error |-> Absent],
    200)

jsonRpcError(accept, id, code, message) ==
  streamableResponse(accept,
    [jsonrpc |-> "2.0", id |-> id, result |-> Absent,
     error |-> Some([code |-> code, message |-> message])],
    200)

\* resp.json().catch(() => null): only a JSON body parses; the text of an
\* event-stream frame and an empty body do not
RespJson(resp) == IF resp.fmt = "json" THEN resp.data ELSE Absent

(* ------------------------- literal text of the code -------------------- *)

NL == <<"\n">>

UserTag == <<"U", "S", "E", "R", ":", " ">>

AssistantTag == <<"\n", "A", "S", "S", "I", "S", "T", "A", "N", "T", ":", " ">>

UploadTag ==
  <<"\n", "[", "S", "E", "S", "S", "I", "O", "N", " ",
    "U", "P", "L", "O", "A", "D", "]", " ">>

DeveloperTag == <<" ", "(", "d", "e", "v", "e", "l", "o", "p", "e", "r", ":", " ">>

CloseTag == <<")", "\n">>

Transcripts == <<"t", "r", "a", "n", "s", "c", "r", "i", "p", "t", "s">>

Unknown == <<"u", "n", "k", "n", "o", "w", "n">>

Slash == <<"/">>

\* a turn that always starts with the separator
ChatTurnTextAlwaysSeparated(context, query, answer) ==
  NL \o UserTag \o query \o AssistantTag \o answer \o NL

\* `${context ? "\n" : ""}USER: ${query}\nASSISTANT: ${answer}\n`
ChatTurnText(context, query, answer) ==
  (IF context # <<>> THEN NL ELSE <<>>)
    \o UserTag \o query \o AssistantTag \o answer \o NL

\* a key with the session first
StoreKeySessionFirst(threadId, sessionId) == sessionId \o Slash \o threadId

\* an upload stored under the key of the thread
StoreKeyOfThread(threadId, sessionId) == threadId

\* `${threadId}/${sessionId}`
StoreKey(threadId, sessionId) == threadId \o Slash \o sessionId

\* `\n[SESSION UPLOAD] ${sessionId} (developer: ${developer})\n${transcript}\n`
UploadTurnText(sessionId, developer, transcript) ==
  UploadTag \o sessionId \o DeveloperTag \o developer \o CloseTag
    \o transcript \o NL

\* `Uploaded session ${sessionId} (developer=${developer}) to thread '${threadId}'.`
UploadMsg(sessionId, developer, threadId) ==
  <<"Uploaded session ">> \o sessionId \o <<" (developer=">> \o developer
    \o <<") to thread '">> \o threadId \o <<"'.">>

\* the text of the HTTP status in an error message
StatusText(status) ==
  CASE status = 500 -> "500"
    [] status = 502 -> "502"
    [] status = 503 -> "503"
    [] OTHER -> "200"

\* `RLM backend error (${resp.status}): ${detail.slice(0, 400)}`
RlmErrorMessage(status, detail) ==
  <<"RLM backend error (", StatusText(status), "): ">>
    \o Slice(detail, DetailLimit)

(* ------------------------- JSON-RPC envelopes -------------------------- *)

\* tool arguments: every field is optional
Args(query, thread_id, transcript, session_id, developer) ==
  [query |-> query, thread_id |-> thread_id, transcript |-> transcript,
   session_id |-> session_id, developer |-> developer]

NoArgs == Args(Absent, Absent, Absent, Absent, Absent)

\* params of tools/call: { name, arguments? }
Params(name, arguments) == [name |-> name, arguments |-> arguments]

\* rpc.params ?? {}
NoParams == Params(Absent, Absent)

\* a request envelope as the handler reads it: every property may be missing
Rpc(jsonrpc, id, method, params) ==
  [jsonrpc |-> jsonrpc, id |-> id, method |-> method, params |-> params]

\* the properties of a JSON value that is not an object are all undefined
NoRpc == Rpc(Absent, Absent, Absent, Absent)

\* JSON values of a request body and of a batch item
JObject(rpc) == [kind |-> "object", rpc |-> rpc, items |-> <<>>]

JArray(items) == [kind |-> "array", rpc |-> NoRpc, items |-> items]

JScalar == [kind |-> "scalar", rpc |-> NoRpc, items |-> <<>>]

JNull == [kind |-> "null", rpc |-> NoRpc, items |-> <<>>]

\* a body that request.json() rejects
Malformed == [kind |-> "malformed", rpc |-> NoRpc, items |-> <<>>]

\* a JSON value of an argument that is not a string and not null (a number):
\* strings are sequences of one-character strings, this is not one
JNumber == <<"number">>

\* value?.trim() throws TypeError: the value has no method trim
TrimThrows(o) == IsSome(o) /\ Get(o) = JNumber

\* params.arguments?.field
ArgsOf(params) ==
  IF IsSome(params.arguments) THEN Get(params.arguments) ELSE NoArgs

(* the outcome of the synchronous part of handleOneRpc, up to its first
   await: an immediate response, or a tool call that goes on to the store *)
Outcome(kind, id, code, message, result, query, key, text, thread) ==
  [kind |-> kind, id |-> id, code |-> code, message |-> message,
   result |-> result, query |-> query, key |-> key, text |-> text,
   thread |-> thread]

NoResult == [kind |-> "none", text |-> <<>>]

\* the static result objects and the tool result { content: [{type, text}] }
Static(kind) == [kind |-> kind, text |-> <<>>]

Content(text) == [kind |-> "content", text |-> text]

PlanError(id, code, message) ==
  Outcome("error", id, code, <<message>>, NoResult, <<>>, <<>>, <<>>, <<>>)

PlanResult(id, result) ==
  Outcome("result", id, 0, <<>>, result, <<>>, <<>>, <<>>, <<>>)

\* new Response(null, { status: 202 })
PlanAccepted(id) ==
  Outcome("accepted", id, 0, <<>>, NoResult, <<>>, <<>>, <<>>, <<>>)

\* a TypeError thrown outside the try blocks of handleOneRpc
PlanThrow(id) ==
  Outcome("throw", id, 0, <<>>, NoResult, <<>>, <<>>, <<>>, <<>>)

PlanChat(id, query, threadId) ==
  Outcome("chat", id, 0, <<>>, NoResult, query, threadId, <<>>, threadId)

PlanUpload(id, storeKey, turnText, msg, threadId) ==
  Outcome("upload", id, 0, <<>>, Content(msg), <<>>, storeKey, turnText,
          threadId)

\* const id = rpc.id ?? null
IdOf(rpc) == IF IsSome(rpc.id) THEN Get(rpc.id) ELSE Null

\* a validation that looks at the method only
InvalidRequestMethodOnly(rpc) == ~IsSome(rpc.method)

\* rpc.jsonrpc !== "2.0" || typeof rpc.method !== "string"
InvalidRequest(rpc) == rpc.jsonrpc # Some("2.0") \/ ~IsSome(rpc.method)

\* tools/call, name chat_rlm_query: lines 233-244
PlanChatCall(id, args) ==
  LET query == OptTrim(args.query)
      threadId == OptTrim(args.thread_id)
  IN IF TrimThrows(args.query) \/ TrimThrows(args.thread_id)
     THEN PlanThrow(id)
     ELSE IF Falsy(query) \/ Falsy(threadId)
     THEN PlanError(id, -32602, "query and thread_id are required")
     ELSE PlanChat(id, Get(query), Get(threadId))

\* tools/call, name upload_context: lines 257-274
PlanUploadCall(id, args) ==
  LET transcript == OptTrim(args.transcript)
      sessionId == OptTrim(args.session_id)
      trimmedThread == OptTrim(args.thread_id)
      threadId == IF Falsy(trimmedThread) THEN Transcripts
                  ELSE Get(trimmedThread)
      developer == IF Falsy(args.developer) THEN Unknown
                   ELSE Get(args.developer)
  IN IF \/ TrimThrows(args.transcript) \/ TrimThrows(args.session_id)
        \/ TrimThrows(args.thread_id)
     THEN PlanThrow(id)
     ELSE IF Falsy(transcript) \/ Falsy(sessionId)
     THEN PlanError(id, -32602, "transcript and session_id are required")
     ELSE PlanUpload(id,
            StoreKey(threadId, Get(sessionId)),
            UploadTurnText(Get(sessionId), developer, Get(transcript)),
            UploadMsg(Get(sessionId), developer, threadId),
            threadId)

\* tools/call: lines 230-286
PlanToolCall(id, rpc) ==
  LET params == IF IsSome(rpc.params) THEN Get(rpc.params) ELSE NoParams
  IN CASE params.name = Some("chat_rlm_query") ->
            PlanChatCall(id, ArgsOf(params))
       [] params.name = Some("upload_context") ->
            PlanUploadCall(id, ArgsOf(params))
       [] OTHER -> PlanError(id, -32602, "Unknown tool")

\* a dispatcher that answers an unknown method like ping
PlanUnknownAsPing(rpc) ==
  LET id == IdOf(rpc)
      method == IF IsSome(rpc.method) THEN Get(rpc.method) ELSE ""
  IN CASE InvalidRequest(rpc) -> PlanError(id, -32600, "Invalid Request")
       [] OTHER ->
          CASE method = "notifications/initialized" -> PlanAccepted(id)
            [] method = "initialize" -> PlanResult(id, Static("initialize"))
            [] method = "resources/list" -> PlanResult(id, Static("resources"))
            [] method = "prompts/list" -> PlanResult(id, Static("prompts"))
            [] method = "tools/list" -> PlanResult(id, Static("tools"))
            [] method = "tools/call" -> PlanToolCall(id, rpc)
            [] OTHER -> PlanResult(id, Static("empty"))

\* handleOneRpc up to its first await: lines 169-289
Plan(rpc) ==
  LET id == IdOf(rpc)
      method == IF IsSome(rpc.method) THEN Get(rpc.method) ELSE ""
  IN CASE InvalidRequest(rpc) -> PlanError(id, -32600, "Invalid Request")
       [] OTHER ->
          CASE method = "notifications/initialized" -> PlanAccepted(id)
            [] method = "initialize" -> PlanResult(id, Static("initialize"))
            [] method = "ping" -> PlanResult(id, Static("empty"))
            [] method = "resources/list" -> PlanResult(id, Static("resources"))
            [] method = "prompts/list" -> PlanResult(id, Static("prompts"))
            [] method = "tools/list" -> PlanResult(id, Static("tools"))
            [] method = "tools/call" -> PlanToolCall(id, rpc)
            [] OTHER -> PlanError(id, -32601, "Method not found")

\* the response of an outcome that needs no store and no backend
Immediate(accept, plan) ==
  CASE plan.kind = "error" ->
         jsonRpcError(accept, plan.id, plan.code, plan.message)
    [] plan.kind = "result" -> jsonRpcResult(accept, plan.id, plan.result)
    [] OTHER -> BareResponse(202)

IsToolPlan(plan) == plan.kind \in {"chat", "upload"}

(* ------------------------------- inputs -------------------------------- *)

\* the concurrent invocations of the worker's fetch handler
Handlers == {"h1", "h2"}

Q1 == <<"2", "+", "2", "?">>

Q2 == <<" ", "a", " ">>

Blank == <<" ", " ", " ">>

T == <<"t">>

TPad == <<" ", "t", "\n">>

U == <<"u">>

Hello == <<"h", "e", "l", "l", "o">>

HiPad == <<" ", "h", "i", " ">>

S1 == <<"s", "1">>

S1Pad == <<"s", "1", " ">>

Dev == <<"d">>

V2 == Some("2.0")

Call(id, name, args) ==
  JObject(Rpc(V2, id, Some("tools/call"), Some(Params(Some(name), Some(args)))))

ChatCall(id, query, thread) ==
  Call(id, "chat_rlm_query", Args(query, thread, Absent, Absent, Absent))

UploadCall(id, transcript, session, thread, developer) ==
  Call(id, "upload_context",
       Args(Absent, thread, transcript, session, developer))

Plain(id, method) == JObject(Rpc(V2, id, method, Absent))

Ids == {Absent, Some("1"), Some(Null)}

Methods ==
  {Absent, Some("initialize"), Some("notifications/initialized"), Some("ping"),
   Some("resources/list"), Some("prompts/list"), Some("tools/list"),
   Some("tools/call"), Some("other/method")}

\* envelopes that need no store and no backend
ProtocolBodies ==
  {Plain(id, m) : id \in Ids, m \in Methods}
    \cup {JObject(Rpc(v, Some("1"), m, Absent)) :
            v \in {Absent, Some("1.0")},
            m \in {Some("ping"), Some("notifications/initialized")}}
    \cup {JObject(Rpc(Some("1.0"), Absent, Some("tools/call"),
                      Some(Params(Some("chat_rlm_query"),
                        Some(Args(Some(Q1), Some(T), Absent, Absent, Absent))))))}
    \cup {ChatCall(Some("1"), q, t) :
            <<q, t>> \in {<<Some(Blank), Some(T)>>, <<Absent, Some(T)>>,
                          <<Some(Q1), Absent>>, <<Some(Q1), Some(<<>>)>>}}
    \cup {UploadCall(Some("1"), tr, se, Absent, Absent) :
            <<tr, se>> \in {<<Some(Blank), Some(S1)>>, <<Some(Hello), Absent>>}}
    \cup {ChatCall(Some("1"), Some(JNumber), Some(T)),
          UploadCall(Some("1"), Some(Hello), Some(S1), Some(JNumber), Absent)}
    \cup {JObject(Rpc(V2, Some("1"), Some("tools/call"),
                      Some(Params(Some(name), Absent)))) :
            name \in {"chat_rlm_query", "upload_context"}}
    \cup {Call(Some("1"), "other_tool", NoArgs),
          JObject(Rpc(V2, Some("1"), Some("tools/call"), Absent)),
          Malformed, JNull, JScalar}

\* the items of a batch of envelopes that need no store and no backend
ProtocolItems ==
  {Plain(Some("1"), Some("ping")), Plain(Some("2"), Some("tools/list")),
   Plain(Absent, Some("ping")), Plain(Absent, Some("notifications/initialized")),
   Plain(Some("1"), Some("notifications/initialized")),
   Plain(Some("2"), Some("other/method")),
   JObject(Rpc(Absent, Some("2"), Some("ping"), Absent)),
   ChatCall(Some("1"), Some(JNumber), Some(T)),
   JScalar, JNull}

\* the items of a batch that is sent twice
ReplayItems ==
  {Plain(Some("1"), Some("ping")), Plain(Absent, Some("ping")),
   Plain(Absent, Some("notifications/initialized")),
   JObject(Rpc(Absent, Some("2"), Some("ping"), Absent))}

\* the items of a batch that calls tools
ToolItems ==
  {ChatCall(Some("1"), Some(Q1), Some(T)), ChatCall(Some("2"), Some(Q2), Some(TPad)),
   ChatCall(Some("1"), Some(Blank), Some(T)),
   UploadCall(Some("2"), Some(Hello), Some(S1), Some(T), Some(Dev)),
   Plain(Absent, Some("notifications/initialized"))}

\* the tool calls of concurrent callers
ToolBodies ==
  {ChatCall(Some("1"), Some(Q1), Some(T)), ChatCall(Some("2"), Some(Q2), Some(TPad)),
   ChatCall(Some("1"), Some(Q1), Some(U)),
   UploadCall(Some("1"), Some(Hello), Some(S1), Absent, Absent),
   UploadCall(Some("2"), Some(HiPad), Some(S1Pad), Some(Blank), Some(<<>>)),
   Plain(Some("0"), Some("initialize"))}

\* the tool calls of callers whose backend is slow to start
RetryBodies ==
  {ChatCall(Some("1"), Some(Q1), Some(T)),
   UploadCall(Some("2"), Some(Hello), Some(S1), Some(T), Some(Dev))}

Arrays(items, n) ==
  UNION {{JArray(a) : a \in [1..k -> items]} : k \in 0..n}

\* Accept: application/json
AcceptJson ==
  Some(
  <<"a", "p", "p", "l", "i", "c", "a", "t", "i", "o", "n", "/", "j", "s",
    "o", "n">>)

\* Accept: application/json, Text/Event-Stream
AcceptSse ==
  Some(
  <<"a", "p", "p", "l", "i", "c", "a", "t", "i", "o", "n", "/", "j", "s",
    "o", "n", ",", " ", "T", "e", "x", "t", "/", "E", "v", "e", "n", "t",
    "-", "S", "t", "r", "e", "a", "m">>)

\* Accept: TEXT/EVENT-STREAM;q=0.9
AcceptWeighted ==
  Some(
  <<"T", "E", "X", "T", "/", "E", "V", "E", "N", "T", "-", "S", "T", "R",
    "E", "A", "M", ";", "q", "=", "0", ".", "9">>)

\* Accept: text/event, stream
AcceptOther ==
  Some(
  <<"t", "e", "x", "t", "/", "e", "v", "e", "n", "t", ",", " ", "s", "t",
    "r", "e", "a", "m">>)

\* what port.fetch throws while the container does not accept connections
ConnErrors == {<<"E", "1">>, <<"E", "2">>}

\* a response body longer than the slice callRlm keeps
LongDetail == [i \in 1..(DetailLimit + 1) |-> IF i <= DetailLimit THEN "x" ELSE "y"]

\* the responses of the backend: { answer } with status 200, a 200 whose
\* answer is not a string, and application errors with a body
Reply(status, answer, detail) ==
  [status |-> status, answer |-> answer, detail |-> detail]

BackendReplies ==
  { Reply(200, Some(<<"4">>), <<>>), Reply(200, Some(<<>>), <<>>),
    Reply(200, Absent, <<>>),
    Reply(500, Absent, <<"n", "o">>), Reply(503, Absent, LongDetail) }

\* a behaviour: its callers, and what the deployment fixes
World(name, container, throws) ==
  [name |-> name, container |-> container, usedBodyThrows |-> throws]

(* The behaviours explored: one caller sending protocol traffic and batches
   ("protocol"), one caller sending tool calls, single and in batches
   ("batch"), two
   concurrent callers sending tool calls ("tools"), two concurrent callers
   of the proxy with every failure and response of the backend ("proxy"),
   a deployment without a container ("bare"), and one caller whose request
   is sent a second time, with any Accept header ("replay").  Whether
   new Request(request, ...) accepts a request whose body was read is a
   property of the runtime: both answers are explored. *)
Worlds ==
  {World(name, TRUE, throws) : name \in {"protocol", "batch"}, throws \in BOOLEAN}
    \cup {World("tools", TRUE, FALSE), World("proxy", TRUE, FALSE),
          World("bare", FALSE, FALSE), World("replay", TRUE, FALSE)}

\* the invocations that receive a request
Callers(w) ==
  IF w.name \in {"tools", "proxy", "replay", "retry"} THEN Handlers
  ELSE {"h1"}

\* the request bodies the callers send
Bodies(w) ==
  CASE w.name = "protocol" ->
         ProtocolBodies \cup Arrays(ProtocolItems, MaxBatch)
    [] w.name = "replay" -> ProtocolBodies \cup Arrays(ReplayItems, MaxBatch)
    [] w.name = "batch" -> ToolItems \cup Arrays(ToolItems, MaxBatch)
    [] w.name = "tools" -> ToolBodies
    [] w.name = "retry" -> RetryBodies
    [] OTHER -> {ChatCall(Some("1"), Some(Q1), Some(T))}

\* the Accept headers the callers send
Accepts(w) ==
  CASE w.name = "protocol" ->
         {Absent, AcceptJson, AcceptSse, AcceptWeighted, AcceptOther}
    [] w.name = "replay" -> {Absent, AcceptJson, AcceptSse}
    [] w.name \in {"batch", "bare"} -> {AcceptJson, AcceptSse}
    [] OTHER -> {AcceptJson}

\* what port.fetch throws in this behaviour
Errors(w) ==
  IF w.name \in {"tools", "batch", "retry"} THEN {<<"E", "1">>}
  ELSE ConnErrors

\* what the backend answers in this behaviour
Replies(w) ==
  CASE w.name \in {"batch", "retry"} ->
         {Reply(200, Some(<<"4">>), <<>>), Reply(500, Absent, <<"n", "o">>)}
    [] w.name = "tools" ->
         {Reply(200, Some(<<"4">>), <<>>), Reply(200, Some(<<>>), <<>>),
          Reply(200, Absent, <<>>)}
    [] OTHER -> BackendReplies

(* ------------------------------- state --------------------------------- *)

VARIABLES
  h,          \* per invocation: position, request, locals of handleMcp,
              \* handleOneRpc, callRlm and of the store and proxy fetches;
              \* history: events, the steps of the tool call in progress,
              \* and fin, the envelopes of the batch already answered
  store,      \* ChatStore storage: key -> the value stored under "chat"
  unit,       \* the container of RlmContainer: NotStarted, Starting, Ready
  world,      \* what a behaviour fixes: the deployment (container binding,
              \* Request reuse) and which callers send which requests
  starts,     \* history: number of container.start() calls
  acked,      \* history: key -> texts of the acknowledged appends, in order
  seen,       \* history: key -> earlier logs and values returned by read
  issued,     \* history: the keys an append was ever issued on
  last        \* history: per invocation, the record of its last tool call

vars == <<h, store, unit, world, starts, acked, seen, issued, last>>

NoReply == Absent

Idle ==
  [pc |-> "idle", body |-> JNull, accept |-> Absent, idx |-> 0, out |-> <<>>,
   rpc |-> NoRpc, plan |-> PlanAccepted(Null), context |-> <<>>,
   sent |-> Absent, backend |-> Absent, answer |-> Absent, attempt |-> 0, lastError |-> Absent, tries |-> 0,
   sop |-> "none", skey |-> <<>>, stext |-> <<>>, sphase |-> "none",
   scur |-> <<>>, mustSee |-> <<>>, fresh |-> FALSE,
   before |-> <<>>, alone |-> FALSE, events |-> <<>>, fin |-> <<>>,
   reply |-> NoReply]

NoCall ==
  [kind |-> "none", key |-> <<>>, outcome |-> "none", before |-> <<>>,
   after |-> <<>>, sent |-> Absent, query |-> <<>>, answer |-> Absent,
   alone |-> FALSE, retried |-> FALSE, lastError |-> Absent,
   events |-> <<>>, response |-> BareResponse(0), rpc |-> NoRpc,
   text |-> <<>>, backend |-> Absent]

\* a store that reads a key nobody writes
LogOfOtherKey(k) == <<>>

\* (await this.state.storage.get("chat")) ?? ""
Log(k) == IF k \in DOMAIN store THEN store[k] ELSE <<>>

AckedOn(k) == IF k \in DOMAIN acked THEN acked[k] ELSE <<>>

SeenOn(k) == IF k \in DOMAIN seen THEN seen[k] ELSE {}

\* f with f[k] = v, whether or not k was in its domain
Put(f, k, v) == [x \in DOMAIN f \cup {k} |-> IF x = k THEN v ELSE f[x]]

\* a store whose events are delivered while a storage operation is pending
GateAlwaysOpen(k) == TRUE

\* one gate for the objects of all keys
GateGlobal(k) ==
  \A y \in Handlers : ~(h[y].sop # "none" /\ h[y].sphase = "got")

(* The input gate of a Durable Object: while a storage operation of one
   event is in progress, no other event is delivered to the object.  The
   /append handler calls storage.put in the continuation of storage.get,
   so the gate stays closed from its get to its put. *)
GateOpen(k) ==
  \A y \in Handlers : ~(h[y].sop # "none" /\ h[y].skey = k /\ h[y].sphase = "got")

\* a proxy that does not look at container.running
NeverRunning == FALSE

\* container.running
Running == unit # "NotStarted"

\* a loop that runs once more
MoreAttemptsInclusive(attempt) == attempt <= MaxAttempts

\* attempt < 20
MoreAttempts(attempt) == attempt < MaxAttempts

\* the tool call of invocation y is in progress on key k
InFlightOn(y, k) ==
  h[y].pc \in {"store", "rlm_enter", "rlm_try"} /\ h[y].plan.key = k

(* ------------------------ leaving handleOneRpc ------------------------- *)

\* the locals of one envelope are dropped when handleOneRpc returns
Cleared(hx) ==
  [Idle EXCEPT !.pc = hx.pc, !.body = hx.body, !.accept = hx.accept,
               !.idx = hx.idx, !.out = hx.out, !.fin = hx.fin,
               !.reply = hx.reply]

\* a loop that takes the items of the batch from the end
ItemReversed(hx) ==
  IF hx.body.kind = "array"
  THEN hx.body.items[Len(hx.body.items) - hx.idx + 1]
  ELSE hx.body

\* the envelope that invocation hx hands to handleOneRpc
Item(hx) == IF hx.body.kind = "array" THEN hx.body.items[hx.idx] ELSE hx.body

\* history: the envelope handleOneRpc just answered with resp, and the key
\* and the text of its append when one was acknowledged
Answer(hx, resp) ==
  LET appended == hx.events # <<>> /\ hx.events[Len(hx.events)] = "append_done"
  IN [rpc |-> Item(hx).rpc, resp |-> resp,
      key |-> IF appended THEN hx.skey ELSE <<>>,
      text |-> IF appended THEN hx.stext ELSE <<>>]

\* handleMcp after handleOneRpc returned resp: lines 322-329
Finish(hx, resp) ==
  IF hx.body.kind # "array"
  THEN [Cleared(hx) EXCEPT !.pc = "done", !.reply = Some(resp)]
  ELSE LET json == RespJson(resp)
           out2 == IF IsSome(json) THEN Append(hx.out, Get(json)) ELSE hx.out
           fin2 == Append(hx.fin, Answer(hx, resp))
       IN IF hx.idx < Len(hx.body.items)
          THEN [Cleared(hx) EXCEPT !.pc = "dispatch", !.idx = hx.idx + 1,
                                   !.out = out2, !.fin = fin2]
          ELSE [Cleared(hx) EXCEPT !.pc = "done", !.out = out2, !.fin = fin2,
                                   !.reply = Some(JsonResponse(out2, 200))]

\* if (typeof item !== "object" || item === null) continue: line 317
Skip(hx) ==
  IF hx.idx < Len(hx.body.items)
  THEN [hx EXCEPT !.idx = hx.idx + 1]
  ELSE [hx EXCEPT !.pc = "done", !.reply = Some(JsonResponse(hx.out, 200))]

\* an exception that no handler catches ends the invocation
Uncaught == [status |-> 500, fmt |-> "exception", event |-> "", data |-> Absent]

Throw(hx) == [Cleared(hx) EXCEPT !.pc = "done", !.reply = Some(Uncaught)]

\* a catch block that hides the message of the error
CaughtUnknown(hx, message) ==
  Finish(hx, jsonRpcError(hx.accept, hx.plan.id, -32000,
                          <<"Unknown internal error">>))

\* the catch blocks of the tool calls: lines 247-254 and 275-282
Caught(hx, message) ==
  Finish(hx, jsonRpcError(hx.accept, hx.plan.id, -32000, message))

\* history: what the tool call of hx did, recorded when handleOneRpc
\* returns resp; after is the log of its key at that moment
Record(hx, outcome, after, resp) ==
  [kind |-> hx.plan.kind, key |-> hx.plan.key, outcome |-> outcome,
   before |-> hx.before, after |-> after, sent |-> hx.sent,
   query |-> hx.plan.query, answer |-> hx.answer, alone |-> hx.alone,
   retried |-> hx.attempt > 0,
   lastError |-> IF outcome = "exhausted" THEN hx.lastError ELSE Absent,
   events |-> hx.events, response |-> resp, rpc |-> hx.rpc,
   text |-> hx.stext, backend |-> hx.backend]

(* ------------------------------ handleMcp ------------------------------ *)

\* request.json() and what follows it up to the first envelope
Arrive(body, accept) ==
  CASE body.kind = "malformed" ->
         [Idle EXCEPT !.pc = "done", !.body = body, !.accept = accept,
            !.reply = Some(jsonRpcError(accept, Null, -32700, <<"Parse error">>))]
    [] body.kind = "array" /\ body.items = <<>> ->
         [Idle EXCEPT !.pc = "done", !.body = body, !.accept = accept,
            !.reply = Some(JsonResponse(<<>>, 200))]
    [] OTHER ->
         [Idle EXCEPT !.pc = "dispatch", !.body = body, !.accept = accept,
            !.idx = 1]

\* invocations are named in the order in which their requests arrive
Earlier(x) == IF x = "h2" THEN {"h1"} ELSE {}

\* the bodies invocation x may receive: a replayed request has the body of
\* the request before it
Incoming(x) ==
  IF world.name = "replay" /\ Earlier(x) # {}
  THEN {h[y].body : y \in Earlier(x)}
  ELSE Bodies(world)

\* a POST to /mcp arrives: lines 304-312
Receive(x) ==
  /\ x \in Callers(world)
  /\ h[x].pc = "idle"
  /\ \A y \in Earlier(x) : h[y].pc # "idle"
  /\ \E body \in Incoming(x), accept \in Accepts(world) :
       h' = [h EXCEPT ![x] = Arrive(body, accept)]
  /\ UNCHANGED <<store, unit, world, starts, acked, seen, issued, last>>

\* the tool call of hx starts: readContext or appendContext is issued
StartTool(x, plan) ==
  LET others == {y \in Handlers \ {x} : InFlightOn(y, plan.key)}
  IN /\ h' = [y \in Handlers |->
               IF y = x
               THEN [h[x] EXCEPT
                       !.pc = "store", !.plan = plan, !.rpc = Item(h[x]).rpc,
                       !.sop = IF plan.kind = "chat" THEN "read" ELSE "append",
                       !.skey = plan.key, !.stext = plan.text,
                       !.sphase = "queued",
                       !.mustSee = AckedOn(plan.key),
                       !.before = Log(plan.key),
                       !.alone = (others = {}),
                       !.events = IF plan.kind = "chat" THEN <<"read">>
                                  ELSE <<"append">>]
               ELSE IF y \in others THEN [h[y] EXCEPT !.alone = FALSE]
               ELSE h[y]]
     /\ issued' = IF plan.kind = "upload" THEN issued \cup {plan.key}
                  ELSE issued

\* handleMcp hands one envelope to handleOneRpc, which runs up to its first
\* await: lines 314-329 and 169-289
Dispatch(x) ==
  /\ h[x].pc = "dispatch"
  /\ LET hx == h[x]
         item == Item(hx)
         batch == hx.body.kind = "array"
         plan == Plan(item.rpc)
     IN CASE batch /\ item.kind # "object" ->
               /\ h' = [h EXCEPT ![x] = Skip(hx)]
               /\ UNCHANGED issued
          [] batch /\ item.kind = "object" /\ world.usedBodyThrows ->
               /\ h' = [h EXCEPT ![x] = Throw(hx)]
               /\ UNCHANGED issued
          [] ~batch /\ item.kind = "null" ->
               /\ h' = [h EXCEPT ![x] = Throw(hx)]
               /\ UNCHANGED issued
          [] item.kind = "object" /\ plan.kind = "throw" ->
               /\ h' = [h EXCEPT ![x] = Throw(hx)]
               /\ UNCHANGED issued
          [] OTHER ->
               IF IsToolPlan(plan)
               THEN StartTool(x, plan)
               ELSE /\ h' = [h EXCEPT ![x] =
                               Finish([hx EXCEPT !.plan = plan],
                                      Immediate(hx.accept, plan))]
                    /\ UNCHANGED issued
  /\ UNCHANGED <<store, unit, world, starts, acked, seen, last>>

(* ------------------------------ ChatStore ------------------------------ *)

\* a store that writes the text in place of the log
NextLogOverwrite(current, text) == text

\* a store that writes the text twice
NextLogTwice(current, text) == current \o text \o text

\* `${current}${payload.text ?? ""}`
NextLog(current, text) == current \o text

\* await this.state.storage.get("chat"), in /read and in /append: the event
\* is delivered when the gate of the object is open
StoreGet(x) ==
  /\ h[x].pc = "store"
  /\ h[x].sphase = "queued"
  /\ GateOpen(h[x].skey)
  /\ h' = [h EXCEPT ![x] = [@ EXCEPT !.sphase = "got",
                                     !.scur = Log(h[x].skey)]]
  /\ UNCHANGED <<store, unit, world, starts, acked, seen, issued, last>>

\* /read answers { context: chat }; readContext returns it and callRlm
\* posts { context, query, thread_id } to the proxy: lines 41, 131-132, 151
StoreReadReply(x) ==
  /\ h[x].pc = "store"
  /\ h[x].sop = "read"
  /\ h[x].sphase = "got"
  /\ LET hx == h[x]
     IN /\ h' = [h EXCEPT ![x] =
                   [hx EXCEPT !.pc = "rlm_enter", !.context = hx.scur,
                      !.fresh = (hx.skey \notin issued),
                      !.sent = Some([context |-> hx.scur,
                                     query |-> hx.plan.query,
                                     thread_id |-> hx.plan.thread]),
                      !.sop = "none", !.sphase = "none", !.scur = <<>>,
                      !.events = hx.events \o <<"read_done", "backend">>]]
        /\ seen' = Put(seen, hx.skey, SeenOn(hx.skey) \cup {hx.scur})
  /\ UNCHANGED <<store, unit, world, starts, acked, issued, last>>

\* the result of the tool whose append was acknowledged: lines 246 and 274
ToolResult(hx) ==
  jsonRpcResult(hx.accept, hx.plan.id,
    IF hx.plan.kind = "chat" THEN Content(Get(hx.answer)) ELSE hx.plan.result)

\* await this.state.storage.put("chat", next) and the { ok: true } answer;
\* the tool then returns its result: lines 47-49, 246 and 274
StorePut(x) ==
  /\ h[x].pc = "store"
  /\ h[x].sop = "append"
  /\ h[x].sphase = "got"
  /\ LET hx == h[x]
         k == hx.skey
         next == NextLog(hx.scur, hx.stext)
         resp == ToolResult(hx)
         acknowledged == [hx EXCEPT !.events = @ \o <<"append_done">>]
     IN /\ store' = Put(store, k, next)
        /\ acked' = Put(acked, k, Append(AckedOn(k), hx.stext))
        /\ seen' = Put(seen, k, SeenOn(k) \cup {Log(k)})
        /\ h' = [h EXCEPT ![x] = Finish(acknowledged, resp)]
        /\ last' = [last EXCEPT ![x] = Record(acknowledged, "ok", next, resp)]
  /\ UNCHANGED <<unit, world, starts, issued>>

\* what the caller of a failed store request reads in err.message: the
\* error of the object, or the message of readContext / appendContext
StoreErrors(op) ==
  { <<"storage failure">>,
    IF op = "read" THEN <<"Failed to read chat context">>
    ELSE <<"Failed to append chat context">> }

\* a handler that goes on with an empty context when the read fails
StoreFailSwallowed(x) ==
  /\ h[x].pc = "store"
  /\ \/ h[x].sphase = "queued" /\ GateOpen(h[x].skey)
     \/ h[x].sphase = "got" /\ h[x].sop = "append"
  /\ \E message \in StoreErrors(h[x].sop) :
       LET hx == h[x]
       IN IF hx.sop = "read"
          THEN /\ h' = [h EXCEPT ![x] =
                         [hx EXCEPT !.pc = "rlm_enter", !.context = <<>>,
                            !.sent = Some([context |-> <<>>,
                                           query |-> hx.plan.query,
                                           thread_id |-> hx.plan.thread]),
                            !.sop = "none", !.sphase = "none",
                            !.events = @ \o <<"read_failed", "backend">>]]
               /\ UNCHANGED last
          ELSE /\ h' = [h EXCEPT ![x] = Caught(hx, message)]
               /\ last' = [last EXCEPT ![x] =
                             Record(hx, "store_failed", Log(hx.plan.key),
                                    jsonRpcError(hx.accept, hx.plan.id, -32000,
                                                 message))]
  /\ UNCHANGED <<store, unit, world, starts, acked, seen, issued>>

\* a storage operation of the store fails: the request fails, nothing is
\* written, and the tool call ends in its catch block
StoreFail(x) ==
  /\ h[x].pc = "store"
  /\ \/ h[x].sphase = "queued" /\ GateOpen(h[x].skey)
     \/ h[x].sphase = "got" /\ h[x].sop = "append"
  /\ \E message \in StoreErrors(h[x].sop) :
       LET hx == h[x]
           after == Caught(hx, message)
       IN /\ h' = [h EXCEPT ![x] = after]
          /\ last' = [last EXCEPT ![x] =
                        Record(hx, "store_failed", Log(hx.plan.key),
                               jsonRpcError(hx.accept, hx.plan.id, -32000,
                                            message))]
  /\ UNCHANGED <<store, unit, world, starts, acked, seen, issued>>

(* ----------------------------- RlmContainer ---------------------------- *)

\* resp.ok
Ok(reply) == reply.status >= 200 /\ reply.status < 300

\* callRlm after the proxy answered: lines 157-164.  The value is the
\* message of the error thrown, or Absent when data.answer is returned.
RlmFailure(reply) ==
  IF ~Ok(reply) THEN Some(RlmErrorMessage(reply.status, reply.detail))
  ELSE IF ~IsSome(reply.answer) THEN Some(<<"Invalid RLM response">>)
  ELSE Absent

\* the tool call of hx ends in the catch block with the error of callRlm
RlmCaught(x, hx, outcome, reply) ==
  LET message == Get(RlmFailure(reply))
  IN /\ h' = [h EXCEPT ![x] = Caught(hx, message)]
     /\ last' = [last EXCEPT ![x] =
                   Record([hx EXCEPT !.backend = Some(reply)], outcome,
                          Log(hx.plan.key),
                          jsonRpcError(hx.accept, hx.plan.id, -32000, message))]

\* RlmContainer.fetch up to the retry loop: lines 59-69
RlmEnter(x) ==
  /\ h[x].pc = "rlm_enter"
  /\ IF ~world.container
     THEN /\ RlmCaught(x, h[x], "not_configured",
                       Reply(500, Absent, <<"Container not configured">>))
          /\ UNCHANGED <<unit, starts>>
     ELSE /\ unit' = IF ~Running THEN "Starting" ELSE unit
          /\ starts' = IF ~Running THEN starts + 1 ELSE starts
          /\ h' = [h EXCEPT ![x] = [@ EXCEPT !.pc = "rlm_try", !.attempt = 0]]
          /\ UNCHANGED last
  /\ UNCHANGED <<store, world, acked, seen, issued>>

\* the container begins to accept connections
UnitReady ==
  /\ unit = "Starting"
  /\ unit' = "Ready"
  /\ UNCHANGED <<h, store, world, starts, acked, seen, issued, last>>

\* a loop whose counter does not advance
RlmAttemptFailNoCount(x) ==
  /\ h[x].pc = "rlm_try"
  /\ unit # "Ready"
  /\ \E err \in Errors(world) :
       h' = [h EXCEPT ![x] = [@ EXCEPT !.lastError = Some(err)]]
  /\ UNCHANGED <<store, unit, world, starts, acked, seen, issued, last>>

\* port.fetch throws: lastError = err, the delay, attempt++; after the last
\* attempt the proxy answers 502 with String(lastError): lines 81-87
RlmAttemptFail(x) ==
  /\ h[x].pc = "rlm_try"
  /\ unit # "Ready"
  /\ \E err \in Errors(world) :
       LET hx == [h[x] EXCEPT !.lastError = Some(err),
                              !.attempt = @ + 1, !.tries = @ + 1]
       IN IF MoreAttempts(hx.attempt)
          THEN /\ h' = [h EXCEPT ![x] = hx]
               /\ UNCHANGED last
          ELSE RlmCaught(x, hx, "exhausted", Reply(502, Absent, err))
  /\ UNCHANGED <<store, unit, world, starts, acked, seen, issued>>

\* port.fetch connects and the proxy returns the response of the backend;
\* callRlm checks it and chat_rlm_query issues its append: lines 74-80,
\* 157-164 and 243-244
RlmAttemptReply(x) ==
  /\ h[x].pc = "rlm_try"
  /\ unit = "Ready"
  /\ \E reply \in Replies(world) :
       LET hx == [h[x] EXCEPT !.tries = @ + 1]
       IN IF IsSome(RlmFailure(reply))
          THEN /\ RlmCaught(x, hx, "rejected", reply)
               /\ UNCHANGED issued
          ELSE /\ h' = [h EXCEPT ![x] =
                         [hx EXCEPT
                            !.pc = "store", !.answer = reply.answer,
                            !.backend = Some(reply),
                            !.sop = "append", !.sphase = "queued",
                            !.stext = ChatTurnText(hx.context, hx.plan.query,
                                                   Get(reply.answer)),
                            !.events = @ \o <<"backend_ok", "append">>]]
               /\ issued' = issued \cup {hx.plan.key}
               /\ UNCHANGED last
  /\ UNCHANGED <<store, unit, world, starts, acked, seen>>

(* ---------------------------- specification ---------------------------- *)

Init ==
  /\ world \in Worlds
  /\ h = [x \in Handlers |-> Idle]
  /\ store = <<>>
  /\ unit = "NotStarted"
  /\ starts = 0
  /\ acked = <<>>
  /\ seen = <<>>
  /\ issued = {}
  /\ last = [x \in Handlers |-> NoCall]

Next ==
  \/ \E x \in Handlers : Receive(x)
  \/ \E x \in Handlers : Dispatch(x)
  \/ \E x \in Handlers : StoreGet(x)
  \/ \E x \in Handlers : StoreReadReply(x)
  \/ \E x \in Handlers : StorePut(x)
  \/ \E x \in Handlers : StoreFail(x)
  \/ \E x \in Handlers : RlmEnter(x)
  \/ \E x \in Handlers : RlmAttemptFail(x)
  \/ \E x \in Handlers : RlmAttemptReply(x)
  \/ UnitReady

Spec == Init /\ [][Next]_vars

(* The behaviours explored for termination: two concurrent callers of the
   tools whose container may never accept a connection ("retry"), and the
   deployment without a container. *)
LiveWorlds == {World("retry", TRUE, FALSE), World("bare", FALSE, FALSE)}

LiveInit ==
  /\ world \in LiveWorlds
  /\ h = [x \in Handlers |-> Idle]
  /\ store = <<>>
  /\ unit = "NotStarted"
  /\ starts = 0
  /\ acked = <<>>
  /\ seen = <<>>
  /\ issued = {}
  /\ last = [x \in Handlers |-> NoCall]

(* The steps of invocation x after its request arrived.  Each is the
   continuation of an await: it runs once the awaited store operation or
   connection attempt has completed or failed, and the event loop runs every
   continuation that is ready.  Nothing is assumed about the arrival of
   requests or about the container ever accepting connections. *)
HandlerStep(x) ==
  \/ Dispatch(x)
  \/ StoreGet(x)
  \/ StoreReadReply(x)
  \/ StorePut(x)
  \/ StoreFail(x)
  \/ RlmEnter(x)
  \/ RlmAttemptFail(x)
  \/ RlmAttemptReply(x)

LiveSpec ==
  LiveInit /\ [][Next]_vars /\ \A x \in Handlers : WF_vars(HandlerStep(x))

TypeOK ==
  /\ unit \in {"NotStarted", "Starting", "Ready"}
  /\ \A x \in Handlers :
       h[x].pc \in {"idle", "dispatch", "store", "rlm_enter", "rlm_try", "done"}

(* ------------------------------- claims -------------------------------- *)

\* the text of a turn, written out
TurnBlock(q, a) ==
  <<"U", "S", "E", "R", ":", " ">> \o q
    \o <<"\n", "A", "S", "S", "I", "S", "T", "A", "N", "T", ":", " ">> \o a
    \o <<"\n">>

\* the text of the tool result in a response of handleOneRpc
ResultText(resp) == Get(Get(resp.data).result).text

\* the arguments of the tools/call envelope of a recorded call
CallArgs(c) == Get(Get(c.rpc.params).arguments)

\* a recorded chat_rlm_query that returned its answer
ChatOk(c) == c.kind = "chat" /\ c.outcome = "ok"

(* C1: a chat_rlm_query with non-empty trimmed query q and thread t whose
   backend call returns a, with no other operation on t in flight during
   the call, leaves the log of t equal to the log before, then a newline
   iff the log before was non-empty, then "USER: q\nASSISTANT: a\n"; the
   backend received the log before as context; the tool result content is
   a.  An empty log with q = "2+2?" and a = "4" gives
   "USER: 2+2?\nASSISTANT: 4\n". *)
C1_TurnAppended ==
  \A x \in Handlers :
    LET c == last[x]
        q == Trim(Get(CallArgs(c).query))
        t == Trim(Get(CallArgs(c).thread_id))
        a == Get(c.answer)
    IN (ChatOk(c) /\ c.alone) =>
         /\ q # <<>> /\ t # <<>> /\ c.key = t
         /\ c.after = c.before \o (IF c.before # <<>> THEN <<"\n">> ELSE <<>>)
                        \o TurnBlock(q, a)
         /\ Get(c.sent).context = c.before
         /\ Get(c.sent).query = q
         /\ c.response.data # Absent /\ ResultText(c.response) = a
         /\ (c.before = <<>> /\ q = <<"2", "+", "2", "?">> /\ a = <<"4">>) =>
              c.after = <<"U", "S", "E", "R", ":", " ", "2", "+", "2", "?", "\n",
                          "A", "S", "S", "I", "S", "T", "A", "N", "T", ":", " ",
                          "4", "\n">>

\* two undisturbed calls on one thread, the first on an empty log, the second
\* on the log the first left
C1_Witness ==
  \E x, y \in Handlers :
    /\ ChatOk(last[x]) /\ last[x].alone /\ last[x].before = <<>>
    /\ last[x].query = Q1 /\ last[x].answer = Some(<<"4">>)
    /\ ChatOk(last[y]) /\ last[y].alone /\ last[y].before = last[x].after

\* the keys that were written or appended to
KeysUsed == DOMAIN store \cup DOMAIN acked \cup DOMAIN seen

\* a recorded tool call whose append was acknowledged
Appended(c) == c.kind \in {"chat", "upload"} /\ c.outcome = "ok"

(* C2: concurrent appends on one key never interleave: the log of a key is
   the concatenation of the texts of its acknowledged appends, each once
   and whole, in the order of acknowledgement; for two appends x and y
   issued concurrently on an empty log the log is x+y or y+x. *)
C2_AppendsSerialized ==
  /\ \A k \in KeysUsed : Log(k) = Flatten(AckedOn(k))
  /\ \A x, y \in Handlers :
       (x # y /\ Appended(last[x]) /\ Appended(last[y])
          /\ last[x].key = last[y].key /\ ~last[x].alone /\ ~last[y].alone)
       => Log(last[x].key) \in {last[x].text \o last[y].text,
                                last[y].text \o last[x].text}

\* two uploads on one key were in flight together and both were acknowledged
C2_Witness ==
  \E x, y \in Handlers :
    /\ x # y /\ Appended(last[x]) /\ Appended(last[y])
    /\ last[x].kind = "upload" /\ last[y].kind = "upload"
    /\ last[x].key = last[y].key /\ ~last[x].alone /\ ~last[y].alone
    /\ last[x].text # last[y].text

(* C3: the log of a key is append-only: every earlier value of the log and
   every value a read returned is a prefix of the current log. *)
C3_AppendOnly ==
  \A k \in KeysUsed : \A v \in SeenOn(k) : IsPrefix(v, Log(k))

\* a read returned a non-empty log that has grown since
C3_Witness ==
  \E k \in KeysUsed : \E x \in Handlers :
    /\ ChatOk(last[x]) /\ last[x].key = k
    /\ last[x].before # <<>> /\ Get(last[x].sent).context \in SeenOn(k)
    /\ Len(Log(k)) > Len(last[x].before)

\* the invocations whose read of the log has returned
HasRead(x) ==
  /\ h[x].plan.kind = "chat"
  /\ \/ h[x].pc \in {"rlm_enter", "rlm_try"}
     \/ h[x].pc = "store" /\ h[x].sop = "append"

(* C4: a read on a key never appended to returns the empty string, and a
   read that begins after an append on its key was acknowledged returns a
   log that contains the text of that append. *)
C4_ReadSeesAcked ==
  \A x \in Handlers :
    HasRead(x) =>
      /\ h[x].fresh => h[x].context = <<>>
      /\ \A i \in 1..Len(h[x].mustSee) : Contains(h[x].context, h[x].mustSee[i])

\* a read began after an append on its key was acknowledged, and returned
C4_Witness ==
  \E x \in Handlers : HasRead(x) /\ h[x].mustSee # <<>> /\ h[x].pc = "rlm_enter"

\* the steps of a chat_rlm_query, in the order of the code
ChatOrder == <<"read", "read_done", "backend", "backend_ok", "append", "append_done">>

\* the backend answered 2xx with a string answer
Answered(backend) ==
  /\ IsSome(backend)
  /\ Get(backend).status \in 200..299
  /\ IsSome(Get(backend).answer)

\* a recorded chat_rlm_query that failed before its append: the read failed,
\* the backend was unreachable, answered non-2xx or gave no string answer
FailedEarly(c) ==
  /\ c.kind = "chat"
  /\ \/ c.outcome \in {"exhausted", "rejected", "not_configured"}
     \/ c.outcome = "store_failed" /\ c.events = <<"read">>

(* C5: within a chat_rlm_query the backend call starts after the read
   completed and the append is issued only after the backend returned 2xx
   with a string answer; if the read fails, the backend is unreachable
   after all retries, answers non-2xx or gives no string answer, the call
   issues no append and leaves the log unchanged. *)
C5_ReadCallAppend ==
  \A x \in Handlers :
    /\ (h[x].plan.kind = "chat" /\ h[x].pc \in {"store", "rlm_enter", "rlm_try"}) =>
         /\ IsPrefix(h[x].events, ChatOrder)
         /\ h[x].sop = "append" => Answered(h[x].backend)
         /\ h[x].pc \in {"rlm_enter", "rlm_try"} => h[x].sop = "none"
    /\ last[x].kind = "chat" =>
         /\ IsPrefix(last[x].events, ChatOrder)
         /\ (\E i \in 1..Len(last[x].events) : last[x].events[i] = "append")
              => Answered(last[x].backend)
    /\ FailedEarly(last[x]) =>
         /\ \A i \in 1..Len(last[x].events) : last[x].events[i] # "append"
         /\ last[x].text = <<>>
         /\ ~Answered(last[x].backend)
         /\ last[x].alone => last[x].after = last[x].before

\* one call failed on a non-empty log after its read and another appended
C5_Witness ==
  \E x, y \in Handlers :
    /\ FailedEarly(last[x]) /\ last[x].outcome = "rejected" /\ last[x].alone
    /\ last[x].before # <<>>
    /\ ChatOk(last[y])

\* the message of the error envelope of a recorded call
ErrorMessage(c) == Get(Get(c.response.data).error).message

\* the proxy of invocation x leaves its retry loop in this step
LeavesLoop(x) == h[x].pc = "rlm_try" /\ h'[x].pc # "rlm_try"

\* the call of invocation x ends in this step, in the retry loop of the
\* proxy: last'[x] is the record of that call
EndsInLoop(x) == LeavesLoop(x) /\ h'[x].pc # "store"

(* C6: when every connection attempt fails the proxy makes exactly 20
   attempts, never more, and the call fails with an error carrying the last
   failure; when attempt k is the first to connect, exactly k attempts are
   made and the response of attempt k is the result. *)
C6_BoundedRetries ==
  [][\A x \in Handlers :
       /\ h'[x].tries <= 20
       /\ (EndsInLoop(x) /\ unit # "Ready") =>
            /\ last'[x].outcome = "exhausted"
            /\ h[x].tries + 1 = 20
            /\ h[x].attempt = h[x].tries
            /\ unit # "Ready"
            /\ IsSome(last'[x].lastError)
            /\ Get(last'[x].lastError) \in Errors(world)
            /\ Get(Get(last'[x].response.data).error).code = -32000
            /\ ErrorMessage(last'[x]) =
                 <<"RLM backend error (", "502", "): ">> \o Get(last'[x].lastError)
       /\ (LeavesLoop(x) /\ unit = "Ready") =>
            /\ h[x].tries = h[x].attempt
            /\ h[x].tries + 1 \in 1..20
            /\ IF h'[x].pc = "store"
               THEN /\ h'[x].tries = h[x].attempt + 1
                    /\ Answered(h'[x].backend)
                    /\ h'[x].answer = Get(h'[x].backend).answer
               ELSE /\ last'[x].outcome = "rejected"
                    /\ Get(last'[x].backend) \in Replies(world)
                    /\ ~Answered(last'[x].backend)
       /\ (h[x].pc = "rlm_try" /\ h'[x].pc = "rlm_try") =>
            h'[x].tries \in {h[x].tries, h[x].tries + 1}
    ]_vars

\* one call used up its attempts and another connected after failures
C6_Witness ==
  \E x, y \in Handlers :
    /\ last[x].outcome = "exhausted"
    /\ last[y].outcome \in {"ok", "rejected"} /\ last[y].retried

(* C7: a non-2xx response of a reachable backend is never retried: the call
   ends at the attempt that received it, with an error whose message embeds
   the response body cut to 400 characters; the retry counter advances only
   when the connection attempt itself fails. *)
C7_NoRetryOnRejection ==
  [][\A x \in Handlers :
       /\ (h[x].pc = "rlm_try" /\ h'[x].pc = "rlm_try"
             /\ h'[x].attempt # h[x].attempt) =>
            unit # "Ready" /\ h'[x].attempt = h[x].attempt + 1
       /\ (EndsInLoop(x) /\ unit = "Ready"
             /\ ~(Get(last'[x].backend).status \in 200..299)) =>
            LET reply == Get(last'[x].backend)
                body == reply.detail
                kept == [i \in 1..(IF Len(body) > 400 THEN 400 ELSE Len(body)) |-> body[i]]
            IN /\ Get(Get(last'[x].response.data).error).code = -32000
               /\ ErrorMessage(last'[x]) =
                    <<"RLM backend error (", StatusText(reply.status), "): ">> \o kept
               /\ Len(ErrorMessage(last'[x])) <= 403
       /\ (EndsInLoop(x) /\ unit = "Ready") =>
            last'[x].outcome = "rejected" /\ h'[x].attempt = 0
    ]_vars

\* a call was rejected with a body longer than 400 characters
C7_Witness ==
  \E x \in Handlers :
    /\ last[x].outcome = "rejected"
    /\ Len(Get(last[x].backend).detail) > 400

\* the order of the states of the execution unit
Rank(u) == CASE u = "NotStarted" -> 0 [] u = "Starting" -> 1 [] OTHER -> 2

(* C8: the start-if-not-running check is atomic: a start is issued only
   when the unit is not running, at most one start is issued, every
   connection attempt happens after a start was issued, and the unit only
   moves forward NotStarted -> Starting -> Ready. *)
C8_SingleStart ==
  [][/\ starts' # starts =>
          unit = "NotStarted" /\ unit' = "Starting" /\ starts' = starts + 1
     /\ starts' <= 1
     /\ \A x \in Handlers :
          h'[x].pc = "rlm_try" => starts' >= 1 /\ unit' # "NotStarted"
     /\ Rank(unit) <= Rank(unit')
     /\ unit' # unit => Rank(unit') = Rank(unit) + 1
    ]_vars

\* two calls are in the retry loop of the proxy after a single start
C8_Witness ==
  /\ starts = 1
  /\ \A x \in Handlers : h[x].pc = "rlm_try"

\* the ids of the non-notification envelopes of a batch, in input order
RECURSIVE ExpectedIds(_)
ExpectedIds(items) ==
  IF items = <<>> THEN <<>>
  ELSE (IF Head(items).kind = "object" /\ IsSome(Head(items).rpc.id)
        THEN <<Get(Head(items).rpc.id)>> ELSE <<>>)
         \o ExpectedIds(Tail(items))

(* C9: every request envelope that carries an id receives exactly one
   response envelope with that id, and every envelope without an id,
   whatever its method, receives no response body. *)
C9_OneResponsePerId ==
  \A x \in Handlers :
    (h[x].pc = "done" /\ h[x].body.kind = "object") =>
      LET rpc == h[x].body.rpc
          reply == Get(h[x].reply)
      IN IF IsSome(rpc.id)
         THEN IsSome(reply.data) /\ Get(reply.data).id = Get(rpc.id)
         ELSE (rpc.jsonrpc = Some("2.0") /\ IsSome(rpc.method)) =>
                reply.data = Absent

(* C10: a batch yields an array with exactly one entry for each
   non-notification envelope of the input, in input order and carrying its
   id, for every Accept header. *)
C10_BatchEntries ==
  \A x \in Handlers :
    (h[x].pc = "done" /\ h[x].body.kind = "array") =>
      LET reply == Get(h[x].reply)
          ids == ExpectedIds(h[x].body.items)
      IN /\ reply.fmt = "json"
         /\ Len(Get(reply.data)) = Len(ids)
         /\ \A i \in 1..Len(ids) : Get(reply.data)[i].id = ids[i]

\* invocation x answered a batch
BatchDone(x) == h[x].pc = "done" /\ h[x].body.kind = "array"

(* C11: the response to a batch does not depend on the Accept header: two
   callers that send the same batch, with no store or backend state
   involved, one accepting text/event-stream and one not, receive the same
   array, and it is never a push-stream. *)
C11_BatchIgnoresAccept ==
  \A x, y \in Handlers :
    (BatchDone(x) /\ BatchDone(y) /\ h[x].body = h[y].body) =>
      /\ Get(h[x].reply).fmt # "sse"
      /\ Get(h[x].reply) = Get(h[y].reply)

\* envelope i of a batch fails before its first await
FailsAt(items, i) ==
  items[i].kind = "object" /\ Plan(items[i].rpc).kind \in {"error", "throw"}

\* envelope j of a batch carries an id and asks for a result or an error
ExpectsEntry(items, j) ==
  /\ items[j].kind = "object"
  /\ IsSome(items[j].rpc.id)
  /\ Plan(items[j].rpc).kind \in {"error", "result"}

(* C12: in a batch the failure of one envelope never aborts its siblings:
   when envelope i fails, the array returned still holds the entry of every
   other envelope j that carries an id.  Stated for a caller whose Accept
   header has no text/event-stream, on a runtime that lets the request be
   copied after its body was read, so that the loss of entries of C10 does
   not enter. *)
C12_BatchIsolation ==
  \A x \in Handlers :
    (BatchDone(x) /\ ~wantsSse(h[x].accept) /\ ~world.usedBodyThrows) =>
      LET items == h[x].body.items
          reply == Get(h[x].reply)
      IN \A i, j \in 1..Len(items) :
           (i # j /\ FailsAt(items, i) /\ ExpectsEntry(items, j)) =>
             /\ reply.fmt = "json"
             /\ \E k \in 1..Len(Get(reply.data)) :
                  Get(reply.data)[k].id = Get(items[j].rpc.id)

\* the envelopes among the first n items of a batch that reach handleOneRpc
RECURSIVE Envelopes(_, _)
Envelopes(items, n) ==
  IF n = 0 THEN <<>>
  ELSE Envelopes(items, n - 1)
         \o (IF items[n].kind = "object" THEN <<items[n].rpc>> ELSE <<>>)

\* a tool call of a batch is in progress in invocation x
BatchCall(x) ==
  h[x].body.kind = "array" /\ h[x].pc \in {"store", "rlm_enter", "rlm_try"}

(* C13: the envelopes of a batch are processed one after the other in input
   order: while the tool call of the envelope at position j is in progress,
   exactly the envelopes before position j have been answered, in order;
   and when the read of a chat_rlm_query at position j has returned, the
   context holds the turn of every successful call on the same thread at a
   position before j. *)
C13_BatchSequential ==
  \A x \in Handlers :
    BatchCall(x) =>
      LET items == h[x].body.items
          fin == h[x].fin
      IN /\ \E j \in 1..Len(items) :
              /\ items[j].rpc = h[x].rpc
              /\ [n \in 1..Len(fin) |-> fin[n].rpc] = Envelopes(items, j - 1)
         /\ HasRead(x) =>
              \A n \in 1..Len(fin) :
                (fin[n].key = h[x].plan.key /\ fin[n].text # <<>>) =>
                  Contains(h[x].context, fin[n].text)

\* the second chat_rlm_query of a batch has read the thread on which the
\* first one appended its turn
C13_Witness ==
  \E x \in Handlers :
    /\ BatchCall(x) /\ HasRead(x) /\ h[x].pc = "rlm_enter"
    /\ Len(h[x].fin) >= 1
    /\ h[x].fin[1].key = h[x].plan.key /\ h[x].fin[1].text # <<>>
    /\ h[x].fin[1].rpc # h[x].rpc

\* handleOneRpc is called with an envelope in this step of invocation x and
\* runs up to its first await or its return
Routed(x) ==
  /\ h[x].pc = "dispatch" /\ h'[x] # h[x]
  /\ Item(h[x]).kind = "object"
  /\ h[x].body.kind = "array" => ~world.usedBodyThrows

\* the response handleOneRpc returned in this step of invocation x
Returned(x) ==
  IF h[x].body.kind = "array"
  THEN h'[x].fin[Len(h'[x].fin)].resp
  ELSE Get(h'[x].reply)

\* an envelope without the version tag "2.0" or without a method
BadEnvelope(rpc) == rpc.jsonrpc # <<"2.0">> \/ rpc.method = <<>>

\* the error envelope with this id, code and message
ErrorEnvelope(id, code, message) ==
  [jsonrpc |-> "2.0", id |-> id, result |-> <<>>,
   error |-> <<[code |-> code, message |-> <<message>>]>>]

\* this step starts no store request, no backend call and no unit, and
\* leaves the other invocations alone
NoEffect(x) ==
  /\ UNCHANGED <<store, unit, starts, acked, seen, issued, last>>
  /\ h'[x].pc \in {"dispatch", "done"}
  /\ h'[x].sop = "none" /\ h'[x].events = <<>>
  /\ \A y \in Handlers \ {x} : h'[y] = h[y]

(* C14: an envelope whose version tag is not "2.0" or whose method is
   missing is answered with the error -32600 "Invalid Request" and the id of
   the envelope (null when it has none), whatever its method, and the step
   starts no store read, no append, no backend call and no unit. *)
C14_InvalidRequestFirst ==
  [][\A x \in Handlers :
       (Routed(x) /\ BadEnvelope(Item(h[x]).rpc)) =>
         LET rpc == Item(h[x]).rpc
             id == IF rpc.id = <<>> THEN "null" ELSE rpc.id[1]
         IN /\ NoEffect(x)
            /\ Returned(x).data = <<ErrorEnvelope(id, -32600, "Invalid Request")>>
            /\ Returned(x).status = 200
    ]_vars

\* a tools/call with valid chat_rlm_query arguments and version tag "1.0"
\* was answered with -32600
C14_Witness ==
  \E x \in Handlers :
    /\ h[x].pc = "done" /\ h[x].body.kind = "object"
    /\ h[x].body.rpc.jsonrpc = <<"1.0">>
    /\ h[x].body.rpc.method = <<"tools/call">>
    /\ Plan([h[x].body.rpc EXCEPT !.jsonrpc = <<"2.0">>]).kind = "chat"
    /\ Get(Get(Get(h[x].reply).data).error).code = -32600
    /\ store = <<>> /\ unit = "NotStarted"

\* an argument that is missing, or a string of white space only
Blankish(o) ==
  o = <<>> \/ \A i \in 1..Len(o[1]) : o[1][i] \in {" ", "\n", "\t"}

\* the arguments of a tools/call envelope; none when params or arguments
\* is missing
ArgumentsOf(rpc) ==
  IF rpc.params = <<>> \/ rpc.params[1].arguments = <<>>
  THEN [query |-> <<>>, thread_id |-> <<>>, transcript |-> <<>>,
        session_id |-> <<>>, developer |-> <<>>]
  ELSE rpc.params[1].arguments[1]

\* the tool a tools/call envelope names, "" when it names none
ToolOf(rpc) ==
  IF rpc.params = <<>> \/ rpc.params[1].name = <<>> THEN ""
  ELSE rpc.params[1].name[1]

\* every argument that is trimmed is a string or missing
StringArgs(a) ==
  \A v \in {a.query, a.thread_id, a.transcript, a.session_id} :
    v # <<<<"number">>>>

\* the message of a parameter error of this envelope, <<>> when the
\* parameters are acceptable
ParamError(rpc) ==
  LET a == ArgumentsOf(rpc)
  IN CASE ToolOf(rpc) = "chat_rlm_query" ->
            IF Blankish(a.query) \/ Blankish(a.thread_id)
            THEN <<"query and thread_id are required">> ELSE <<>>
       [] ToolOf(rpc) = "upload_context" ->
            IF Blankish(a.transcript) \/ Blankish(a.session_id)
            THEN <<"transcript and session_id are required">> ELSE <<>>
       [] OTHER -> <<"Unknown tool">>

(* C15: a tools/call whose string arguments fail validation - chat_rlm_query
   with query or thread_id missing or blank, upload_context with transcript
   or session_id missing or blank - or which names an unknown tool, is
   answered with the error -32602, and the step starts no store read, no
   backend call and no append. *)
C15_InvalidParamsNoEffect ==
  [][\A x \in Handlers :
       LET rpc == Item(h[x]).rpc
           id == IF rpc.id = <<>> THEN "null" ELSE rpc.id[1]
       IN (/\ Routed(x) /\ ~BadEnvelope(rpc) /\ rpc.method = <<"tools/call">>
           /\ StringArgs(ArgumentsOf(rpc)) /\ ParamError(rpc) # <<>>) =>
            /\ NoEffect(x)
            /\ Returned(x).data =
                 <<ErrorEnvelope(id, -32602, ParamError(rpc)[1])>>
    ]_vars

\* in a batch, a chat_rlm_query with a blank query was answered with -32602
\* after an earlier call of the batch had appended its turn
C15_Witness ==
  \E x \in Handlers : \E n \in 2..Len(h[x].fin) :
    /\ h[x].fin[n - 1].text # <<>>
    /\ ToolOf(h[x].fin[n].rpc) = "chat_rlm_query"
    /\ IsSome(h[x].fin[n].resp.data)
    /\ h[x].fin[n].resp.data[1].error # <<>>
    /\ h[x].fin[n].resp.data[1].error[1].code = -32602
    /\ store # <<>>

\* a recorded upload_context whose append was acknowledged
UploadOk(c) == c.kind = "upload" /\ c.outcome = "ok"

\* the thread of an upload: "transcripts" when thread_id is missing or blank
ThreadOfUpload(a) ==
  IF Blankish(a.thread_id)
  THEN <<"t", "r", "a", "n", "s", "c", "r", "i", "p", "t", "s">>
  ELSE Trim(a.thread_id[1])

\* the developer of an upload: "unknown" when developer is missing or empty
DeveloperOfUpload(a) ==
  IF a.developer = <<>> \/ a.developer = <<<<>>>>
  THEN <<"u", "n", "k", "n", "o", "w", "n">>
  ELSE a.developer[1]

\* "\n[SESSION UPLOAD] s (developer: d)\nt\n"
UploadBlock(s, d, t) ==
  <<"\n", "[", "S", "E", "S", "S", "I", "O", "N", " ", "U", "P", "L", "O",
    "A", "D", "]", " ">> \o s
    \o <<" ", "(", "d", "e", "v", "e", "l", "o", "p", "e", "r", ":", " ">> \o d
    \o <<")", "\n">> \o t \o <<"\n">>

(* C16: a successful upload_context(transcript, session_id, thread_id?,
   developer?) appends exactly one block
   "\n[SESSION UPLOAD] <session> (developer: <developer>)\n<transcript>\n",
   with session and transcript trimmed, to the key <thread>/<session>, where
   thread is "transcripts" when thread_id is missing or blank and developer
   is "unknown" when it is missing; the confirmation names the session, the
   developer and the thread.  transcript "hello", session_id "s1" and
   nothing else give the key "transcripts/s1", developer: unknown and the
   thread 'transcripts'. *)
C16_UploadBlock ==
  \A x \in Handlers :
    LET c == last[x]
        a == ArgumentsOf(c.rpc)
        s == Trim(a.session_id[1])
        t == Trim(a.transcript[1])
        th == ThreadOfUpload(a)
        d == DeveloperOfUpload(a)
    IN UploadOk(c) =>
         /\ s # <<>> /\ t # <<>>
         /\ c.key = th \o <<"/">> \o s
         /\ c.text = UploadBlock(s, d, t)
         /\ c.events = <<"append", "append_done">>
         /\ c.alone => c.after = c.before \o UploadBlock(s, d, t)
         /\ ResultText(c.response) =
              <<"Uploaded session ">> \o s \o <<" (developer=">> \o d
                \o <<") to thread '">> \o th \o <<"'.">>
         /\ (a.transcript = <<<<"h", "e", "l", "l", "o">>>>
               /\ a.session_id = <<<<"s", "1">>>>
               /\ a.thread_id = <<>> /\ a.developer = <<>>) =>
              /\ c.key = <<"t", "r", "a", "n", "s", "c", "r", "i", "p", "t", "s",
                           "/", "s", "1">>
              /\ d = <<"u", "n", "k", "n", "o", "w", "n">>
              /\ ResultText(c.response) =
                   <<"Uploaded session ", "s", "1", " (developer=",
                     "u", "n", "k", "n", "o", "w", "n", ") to thread '",
                     "t", "r", "a", "n", "s", "c", "r", "i", "p", "t", "s", "'.">>

\* the upload of the scenario and an upload with padded arguments, a blank
\* thread_id and an empty developer were both acknowledged, one after the
\* other, on the same key
C16_Witness ==
  \E x, y \in Handlers :
    /\ UploadOk(last[x]) /\ last[x].alone /\ last[x].before = <<>>
    /\ ArgumentsOf(last[x].rpc).thread_id = <<>>
    /\ ArgumentsOf(last[x].rpc).developer = <<>>
    /\ UploadOk(last[y]) /\ last[y].alone /\ last[y].before = last[x].after
    /\ ArgumentsOf(last[y].rpc).thread_id # <<>>
    /\ last[y].key = last[x].key

\* invocation x answered a body that is not an array
SingleDone(x) == h[x].pc = "done" /\ h[x].body.kind # "array"

\* a response that carries one JSON-RPC response envelope, as a JSON body or
\* as one event-stream frame
WellFormed(resp) ==
  /\ resp.fmt \in {"json", "sse"}
  /\ resp.data # <<>>
  /\ resp.data[1].jsonrpc = "2.0"
  /\ (resp.data[1].result = <<>>) # (resp.data[1].error = <<>>)

(* C17: every POST with a single body gets a well-formed response envelope,
   never an unhandled failure: a body that is not JSON gets the error
   -32700 with id null, and every body that is JSON gets a result or an
   error envelope.  Stated for every body but the notification
   notifications/initialized, which is answered 202 without a body. *)
C17_AlwaysAnEnvelope ==
  \A x \in Handlers :
    (SingleDone(x) /\ h[x].body.rpc.method # <<"notifications/initialized">>) =>
      /\ WellFormed(h[x].reply[1])
      /\ h[x].body.kind = "malformed" =>
           h[x].reply[1].data[1] = ErrorEnvelope("null", -32700, "Parse error")

\* the tool call of invocation x ends in this step
ToolEnds(x) ==
  /\ h[x].pc \in {"store", "rlm_enter", "rlm_try"}
  /\ h'[x].pc \in {"dispatch", "done"}

\* the messages of the error a failed tool call may have met, from what the
\* call went through: c is its record
Underlying(c) ==
  CASE c.outcome = "store_failed" ->
         { <<"storage failure">>,
           IF c.events = <<"read">> THEN <<"Failed to read chat context">>
           ELSE <<"Failed to append chat context">> }
    [] c.outcome = "exhausted" ->
         { <<"RLM backend error (", "502", "): ">> \o c.lastError[1] }
    [] c.outcome = "not_configured" ->
         { <<"RLM backend error (", "500", "): ", "Container not configured">> }
    [] c.outcome = "rejected" /\ c.backend[1].status \in 200..299 ->
         { <<"Invalid RLM response">> }
    [] OTHER ->
         { <<"RLM backend error (", StatusText(c.backend[1].status), "): ">>
             \o SubSeq(c.backend[1].detail, 1,
                       IF Len(c.backend[1].detail) > 400 THEN 400
                       ELSE Len(c.backend[1].detail)) }

(* C18: a failure of the store read, of the backend call or of the store
   append inside a tool call ends the call with the error envelope -32000
   carrying the message of that failure; and a step in which a tool call
   fails, the failed write of an append included, leaves every log as it
   was and acknowledges nothing. *)
C18_FailuresCaught ==
  [][\A x \in Handlers :
       (ToolEnds(x) /\ last'[x].outcome # "ok") =>
         LET c == last'[x]
             id == IF c.rpc.id = <<>> THEN "null" ELSE c.rpc.id[1]
             env == Returned(x).data[1]
         IN /\ UNCHANGED <<store, acked>>
            /\ Returned(x).data # <<>>
            /\ env.jsonrpc = "2.0" /\ env.id = id /\ env.result = <<>>
            /\ env.error # <<>> /\ env.error[1].code = -32000
            /\ env.error[1].message \in Underlying(c)
            /\ c.response.data = Returned(x).data
    ]_vars

\* the write of the append of a chat_rlm_query failed, after the backend
\* had answered, on a log that was not empty
C18_Witness ==
  \E x \in Handlers :
    /\ last[x].kind = "chat" /\ last[x].outcome = "store_failed"
    /\ last[x].events = <<"read", "read_done", "backend", "backend_ok", "append">>
    /\ last[x].before # <<>>
    /\ Log(last[x].key) = last[x].before

\* the methods that need no store and no backend
Lifecycle ==
  {"initialize", "notifications/initialized", "ping", "resources/list",
   "prompts/list", "tools/list"}

(* C19: a method other than initialize, notifications/initialized, ping,
   resources/list, prompts/list, tools/list and tools/call is answered with
   the error -32601; and the lifecycle and list methods are stateless: the
   step that answers one changes no log and no unit state, starts nothing
   and keeps nothing, so that a tools/call behaves the same whether or not
   initialize came before it. *)
C19_MethodsStateless ==
  [][\A x \in Handlers :
       LET rpc == Item(h[x]).rpc
           id == IF rpc.id = <<>> THEN "null" ELSE rpc.id[1]
       IN (Routed(x) /\ ~BadEnvelope(rpc) /\ rpc.method # <<"tools/call">>) =>
            /\ NoEffect(x)
            /\ h'[x].plan = Idle.plan /\ h'[x].context = <<>>
            /\ IF rpc.method[1] \in Lifecycle
               THEN IF rpc.method[1] = "notifications/initialized"
                    THEN Returned(x).status = 202 /\ Returned(x).data = <<>>
                    ELSE /\ Returned(x).data # <<>>
                         /\ Returned(x).data[1].id = id
                         /\ Returned(x).data[1].result # <<>>
                         /\ Returned(x).data[1].error = <<>>
               ELSE Returned(x).data =
                      <<ErrorEnvelope(id, -32601, "Method not found")>>
    ]_vars

\* a chat_rlm_query on an empty log returned its answer after another
\* caller's initialize had been answered
C19_Witness ==
  \E x, y \in Handlers :
    /\ h[x].pc = "done" /\ h[x].body.rpc.method = <<"initialize">>
    /\ h[x].reply # <<>> /\ h[x].reply[1].data # <<>>
    /\ ChatOk(last[y]) /\ last[y].before = <<>>
    /\ Log(last[y].key) = TurnBlock(last[y].query, last[y].answer[1])

\* "text/event-stream" in lower and in upper case
EventStreamLower ==
  <<"t", "e", "x", "t", "/", "e", "v", "e", "n", "t", "-", "s", "t", "r",
    "e", "a", "m">>

EventStreamUpper ==
  <<"T", "E", "X", "T", "/", "E", "V", "E", "N", "T", "-", "S", "T", "R",
    "E", "A", "M">>

\* the Accept header contains text/event-stream in any mix of cases
AcceptsEventStream(accept) ==
  /\ accept # <<>>
  /\ \E i \in 0..(Len(accept[1]) - 17) :
       \A k \in 1..17 :
         accept[1][i + k] \in {EventStreamLower[k], EventStreamUpper[k]}

(* C20: the response to a single request that carries an envelope is a
   push-stream of one event labeled message, with status 200, if and only
   if the Accept header contains text/event-stream in any case, and the
   plain JSON payload otherwise; the same body sent with another Accept
   header and no store or backend involved carries the same envelope. *)
C20_EncodingFromAccept ==
  /\ \A x \in Handlers :
       (SingleDone(x) /\ h[x].reply[1].data # <<>>) =>
         LET reply == h[x].reply[1]
         IN /\ reply.status = 200
            /\ IF AcceptsEventStream(h[x].accept)
               THEN reply.fmt = "sse" /\ reply.event = "message"
               ELSE reply.fmt = "json" /\ reply.event = ""
  /\ \A x, y \in Handlers :
       (/\ SingleDone(x) /\ SingleDone(y) /\ h[x].body = h[y].body
        /\ world.name = "replay") =>
         h[x].reply[1].data = h[y].reply[1].data

\* the same request was answered once as a push-stream and once as JSON
C20_Witness ==
  \E x, y \in Handlers :
    /\ SingleDone(x) /\ SingleDone(y) /\ h[x].body = h[y].body
    /\ h[x].reply[1].data # <<>>
    /\ h[x].reply[1].fmt = "sse" /\ h[y].reply[1].fmt = "json"
    /\ AcceptsEventStream(h[x].accept) /\ ~AcceptsEventStream(h[y].accept)

\* invocation x has a request pending at the store object of key k
AtStore(x, k) == h[x].pc = "store" /\ h[x].skey = k

(* C21: operations on different keys are independent: a step changes the log
   of at most one key, and only the write of an append on that key does; a
   read or append waiting at the store of key K can be served whenever no
   other request is pending at the store of K, whatever is in flight on
   other keys. *)
C21_KeysIndependent ==
  [][/\ \A k \in DOMAIN store \cup DOMAIN store' :
          LET old == IF k \in DOMAIN store THEN store[k] ELSE <<>>
              new == IF k \in DOMAIN store' THEN store'[k] ELSE <<>>
          IN new # old =>
               /\ \E x \in Handlers :
                    /\ AtStore(x, k) /\ h[x].sop = "append" /\ h[x].sphase = "got"
                    /\ h'[x] # h[x]
                    /\ new = old \o h[x].stext
               /\ \A j \in (DOMAIN store \cup DOMAIN store') \ {k} :
                    j \in DOMAIN store /\ j \in DOMAIN store' /\ store'[j] = store[j]
     /\ \A x \in Handlers :
          (/\ h[x].pc = "store" /\ h[x].sphase = "queued"
           /\ \A y \in Handlers \ {x} : ~AtStore(y, h[x].skey))
            => ENABLED StoreGet(x)
    ]_vars

\* two requests on different keys are being served at the same time: the
\* append of a chat_rlm_query and a request of another call
C21_Witness ==
  \E x, y \in Handlers :
    /\ h[x].pc = "store" /\ h[x].sphase = "got"
    /\ h[x].sop = "append" /\ h[x].plan.kind = "chat"
    /\ h[y].pc = "store" /\ h[y].sphase = "got"
    /\ h[x].skey # h[y].skey

\* the log to which the append of a recorded call was applied
AppliedTo(c) == SubSeq(c.after, 1, Len(c.after) - Len(c.text))

(* C22: under any interleaving of chat_rlm_query calls on one thread, the
   turn a call appends begins with the separator newline if and only if the
   log of the thread is non-empty at the moment the append is applied. *)
C22_SeparatorAtAppend ==
  \A x \in Handlers :
    ChatOk(last[x]) =>
      /\ last[x].after = AppliedTo(last[x]) \o last[x].text
      /\ (last[x].text[1] = "\n") <=> (AppliedTo(last[x]) # <<>>)

\* the number of places at which t occurs in s
Occurrences(s, t) ==
  Cardinality({i \in 0..(Len(s) - Len(t)) : SubSeq(s, i + 1, i + Len(t)) = t})

\* no tool call is in progress, and every caller sent a single request
AllFinished ==
  \A x \in Handlers :
    h[x].pc \in {"idle", "done"} /\ h[x].body.kind # "array"

\* the recorded chat_rlm_query calls on the key of c that returned a result
\* with the query and the answer of c
SameTurns(c) ==
  {y \in Handlers :
     /\ ChatOk(last[y]) /\ last[y].key = c.key
     /\ last[y].query = c.query /\ last[y].answer = c.answer}

\* the recorded chat_rlm_query calls on the key of c that returned a result
\* with the query of c
SameQueries(c) ==
  {y \in Handlers :
     ChatOk(last[y]) /\ last[y].key = c.key /\ last[y].query = c.query}

(* C23: under any interleaving of chat_rlm_query calls on one thread no turn
   is lost or duplicated: once all calls have finished, the log of the
   thread holds the text "USER: q\nASSISTANT: a\n" of every call that
   returned a result once for each such call, holds no turn of a call that
   returned an error, and is the sequence of the appended texts in the
   order of their acknowledgement. *)
C23_NoTurnLostOrDuplicated ==
  AllFinished =>
    /\ \A k \in KeysUsed : Log(k) = Flatten(AckedOn(k))
    /\ \A x \in Handlers :
         LET c == last[x]
         IN /\ ChatOk(c) =>
                 Occurrences(Log(c.key), TurnBlock(c.query, c.answer[1]))
                   = Cardinality(SameTurns(c))
            /\ c.kind = "chat" =>
                 Occurrences(Log(c.key),
                             <<"U", "S", "E", "R", ":", " ">> \o c.query \o <<"\n">>)
                   = Cardinality(SameQueries(c))

\* two chat_rlm_query calls with different queries that were in flight
\* together on one thread, and read the same log, both returned a result
C23_Witness ==
  /\ AllFinished
  /\ \E x, y \in Handlers :
       /\ x # y /\ ChatOk(last[x]) /\ ChatOk(last[y])
       /\ last[x].key = last[y].key /\ last[x].query # last[y].query
       /\ ~last[x].alone /\ ~last[y].alone
       /\ last[x].sent = Some([context |-> <<>>, query |-> last[x].query,
                               thread_id |-> last[x].key])
       /\ last[y].sent[1].context = <<>>

\* the log of key k after the step
LogAfter(k) == IF k \in DOMAIN store' THEN store'[k] ELSE <<>>

\* "[SESSION UPLOAD]"
UploadMark ==
  <<"[", "S", "E", "S", "S", "I", "O", "N", " ", "U", "P", "L", "O", "A",
    "D", "]">>

(* C24: the write of an upload_context with thread T and session S changes
   the log of the derived key T/S only: the log of T and of every other key
   is as before, and so is the context every chat_rlm_query in progress has
   read; a chat_rlm_query on a thread whose name is not a derived key never
   reads an uploaded block. *)
C24_UploadChangesDerivedKeyOnly ==
  [][/\ \A x \in Handlers :
          (/\ h[x].pc = "store" /\ h[x].plan.kind = "upload"
           /\ h'[x] # h[x] /\ store' # store) =>
            LET a == ArgumentsOf(h[x].rpc)
                thread == ThreadOfUpload(a)
                session == Trim(a.session_id[1])
                derived == thread \o <<"/">> \o session
            IN /\ LogAfter(derived) =
                    Log(derived) \o UploadBlock(session, DeveloperOfUpload(a),
                                                Trim(a.transcript[1]))
               /\ derived # thread /\ LogAfter(thread) = Log(thread)
               /\ \A k \in (DOMAIN store \cup DOMAIN store') \ {derived} :
                    LogAfter(k) = Log(k)
               /\ \A y \in Handlers \ {x} : h'[y] = h[y]
     /\ \A y \in Handlers :
          (HasRead(y) /\ ~Contains(h[y].plan.key, <<"/">>)) =>
            ~Contains(h[y].context, UploadMark)
    ]_vars

\* in a batch, a chat_rlm_query on thread t has read its context after an
\* upload_context with thread t was acknowledged, and the context is empty
C24_Witness ==
  \E x \in Handlers :
    /\ BatchCall(x) /\ HasRead(x) /\ h[x].plan.key = <<"t">>
    /\ Len(h[x].fin) >= 1
    /\ ToolOf(h[x].fin[1].rpc) = "upload_context"
    /\ ArgumentsOf(h[x].fin[1].rpc).thread_id = <<<<"t">>>>
    /\ h[x].fin[1].key = <<"t", "/", "s", "1">>
    /\ Contains(Log(h[x].fin[1].key), UploadMark)
    /\ h[x].context = <<>> /\ Log(<<"t">>) = <<>>

\* a tool call of invocation x is in progress
InCall(x) == h[x].pc \in {"store", "rlm_enter", "rlm_try"}

\* the tool call of invocation x has returned a result or an error envelope
\* of its request
Responded(x) ==
  /\ ~InCall(x)
  /\ last[x].kind \in {"chat", "upload"}
  /\ LET resp == last[x].response
     IN /\ resp.status = 200 /\ IsSome(resp.data)
        /\ Get(resp.data).id = IdOf(last[x].rpc)
        /\ IsSome(Get(resp.data).result) # IsSome(Get(resp.data).error)

(* C25: under weak fairness of the steps of the handler, every tools/call
   in progress eventually returns a result or an error envelope: the retry
   loop of the proxy ends after at most 20 attempts, whether the container
   never accepts connections or begins to accept them at some attempt. *)
C25_CallTerminates ==
  /\ \A x \in Handlers : InCall(x) ~> Responded(x)
  /\ [](\A x \in Handlers : h[x].tries <= 20)

\* the container never accepted a connection: one call has returned the
\* error of its 20th attempt while the other is still in the retry loop
C25_Witness ==
  \E x, y \in Handlers :
    /\ unit = "Starting"
    /\ Responded(x) /\ last[x].outcome = "exhausted" /\ h[x].pc = "done"
    /\ h[y].pc = "rlm_try" /\ h[y].attempt > 0

====
